---- MODULE Spec2Model ----
(***************************************************************************)
(* mailboxcopy: one-way IMAP mailbox synchronisation.                      *)
(*                                                                         *)
(* The model follows src/mailboxcopy/__init__.py: the driver loop of       *)
(* main(), the write pipeline of IMAPClientExt (to_complete, writes, the   *)
(* executor and its worker thread), the ExcludeList matcher and the        *)
(* MessageParser.  Strings that the code inspects character by character   *)
(* (folder paths) are sequences of one-character strings.                  *)
(***************************************************************************)
EXTENDS Integers, Sequences, FiniteSets, TLC

\* ------------------------------------------------------------------ bounds
\* largest --buffer-size tried
MaxBuffer == 2
\* the --limit-size tried when one is given; message sizes lie around it
MaxLimit == 2
\* a finished process may be started again, up to this many runs
MaxRuns == 2
\* appends that may fail in one run
MaxFailures == 1
\* pure ExcludeList checks: path length, entry length, entries per list
MaxPathLen == 4
MaxExLen == 2
MaxExcludes == 1

\* ------------------------------------------------------- optional values
\* Python's None / a value: the empty set / a singleton
None == {}
Some(v) == {v}
IsNone(o) == o = {}
Val(o) == CHOOSE v \in o : TRUE

\* ---------------------------------------------------------------- strings
RECURSIVE str_replace(_, _, _)
\* str.replace(old, new) for a one-character old and new
str_replace(s, old, new) ==
    IF s = <<>> THEN <<>>
    ELSE <<IF Head(s) = old THEN new ELSE Head(s)>> \o str_replace(Tail(s), old, new)

endswith(s, c) == s # <<>> /\ s[Len(s)] = c

startswith(s, p) == Len(p) <= Len(s) /\ SubSeq(s, 1, Len(p)) = p

\* ------------------------------------------------------------ ExcludeList
\* mutant: the entry or name is not slash-terminated
slashify_noslash(value) == value

\* ExcludeList.slashify
slashify(value) == IF endswith(value, "/") THEN value ELSE value \o <<"/">>

\* ExcludeList.__init__: the sanitized list; iterating None raises TypeError
ExcludeList_init(excludes) == [i \in DOMAIN excludes |-> slashify(excludes[i])]

\* ExcludeList.__call__ on the stored (sanitized) list
ExcludeList_call(stored, name) ==
    \E i \in DOMAIN stored : startswith(slashify(name), stored[i])

\* ---------------------------------------------------------- MessageParser
\* imapclient.RECENT
RECENT == "\\Recent"

RECURSIVE lstrip(_)
lstrip(s) == IF s # <<>> /\ Head(s) = " " THEN lstrip(Tail(s)) ELSE s

RECURSIVE rstrip(_)
rstrip(s) == IF s # <<>> /\ s[Len(s)] = " " THEN rstrip(SubSeq(s, 1, Len(s) - 1)) ELSE s

\* str.strip
strip(s) == rstrip(lstrip(s))

\* MessageParser.header raises (AttributeError: None has no strip) when the
\* header block holds no Message-ID field
header_raises(data) == IsNone(data.hdr)

\* MessageParser.header: MessageHeader(id, size)
header(data) == [id |-> strip(Val(data.hdr)), size |-> data.size]

\* MessageParser.message: Message(id, size, folder, body, flags, date)
message_of(folder, msgid, data) ==
    [id |-> msgid, size |-> data.size, body |-> data.body,
     flags |-> SelectSeq(data.flags, LAMBDA f : f # RECENT),
     folder |-> folder, date |-> data.date]

\* ------------------------------------------------------------- mail store
\* A stored message is [body, flags, date]; its body carries the Message-ID
\* header block (hdr: None when the field is absent, else the raw field value,
\* possibly folded, i.e. with surrounding blanks) and its length.
StoredMsg(hdr, len, flags) ==
    [body |-> [hdr |-> hdr, len |-> len], flags |-> flags, date |-> len]

\* the fetch items, lines 106-111
HEADERS == "BODY[HEADER.FIELDS (MESSAGE-ID)]"
FLAGS == "FLAGS"
BODY_PEEK == "BODY.PEEK[]"
BODY == "BODY[]"
RFC822_SIZE == "RFC822.SIZE"
INTERNALDATE == "INTERNALDATE"

\* line 220: pre_data = [HEADERS, RFC822_SIZE, INTERNALDATE]
pre_data == <<HEADERS, RFC822_SIZE, INTERNALDATE>>
\* line 312: the items of the fetch of one message to copy
full_data == <<FLAGS, BODY_PEEK, RFC822_SIZE, INTERNALDATE>>

\* The store sets \Seen on a message when a BODY[...] section of it is fetched
\* in a form without .PEEK, unless the folder is selected read-only.
SEEN == "\\Seen"
marks_seen(item) == item \in {HEADERS, BODY}
seen(m) ==
    IF \E i \in DOMAIN m.flags : m.flags[i] = SEEN THEN m
    ELSE [m EXCEPT !.flags = Append(@, SEEN)]
\* the message as the store holds it after a fetch of the items data
after_fetch(m, data, readonly) ==
    IF ~readonly /\ \E i \in DOMAIN data : marks_seen(data[i]) THEN seen(m) ELSE m

\* mutant: the source folder is selected as imapclient does by default
select_source_readwrite == FALSE

\* line 260: source.select_folder(src_name, readonly=True)
select_source_readonly == TRUE

\* fetch(..., [HEADERS, RFC822_SIZE, INTERNALDATE]) for one message
fetch_pre(m) == [hdr |-> m.body.hdr, size |-> m.body.len, date |-> m.date]

\* fetch(mid, [FLAGS, BODY_PEEK, RFC822_SIZE, INTERNALDATE])[mid]
fetch_full(m) == [flags |-> m.flags, body |-> m.body, size |-> m.body.len, date |-> m.date]

\* append(folder, body, flags, date): the message the store then holds
appended(msg) == [body |-> msg.body, flags |-> msg.flags, date |-> msg.date]

\* ------------------------------------------------------------------ main
\* folder_mapping = {'INBOX/Sent': 'Sent'}
INBOX_Sent == <<"I", "N", "B", "O", "X", "/", "S", "e", "n", "t">>
Sent == <<"S", "e", "n", "t">>
a_dot_b == <<"a", ".", "b">>

folder_mapping_has_key(name) == name = INBOX_Sent

\* mutant: the rename table is ignored
dst_name_identity(src_name) == src_name

\* dst_name = folder_mapping[src_name] if folder_mapping.has_key(src_name) else src_name
dst_name_of(src_name) == IF folder_mapping_has_key(src_name) THEN Sent ELSE src_name

\* mutant: the path is matched without replacing the delimiter
normalized_raw(delimiter, src_name) == src_name

\* src_name if delimiter == '/' else src_name.replace(delimiter, '/')
normalized(delimiter, src_name) ==
    IF delimiter = "/" THEN src_name ELSE str_replace(src_name, delimiter, "/")

\* mutant: a pool of two threads
max_workers_two == 1 + 1

\* ThreadPoolExecutor(1)
max_workers == 1

\* --------------------------------------------------------------- inputs
\* source messages: X arrives folded and small, Z sits on the ceiling, W and a
\* second message with Z's identifier lie above it, B has no Message-ID field
mX == StoredMsg(Some(<<" ", "X">>), MaxLimit - 1, <<RECENT, "altro">>)
mZ == StoredMsg(Some(<<"Z">>), MaxLimit, <<"\\Seen">>)
mW == StoredMsg(Some(<<"W">>), MaxLimit + 1, <<"\\Seen", RECENT>>)
mZZ == StoredMsg(Some(<<"Z", " ">>), MaxLimit + 1, <<>>)
mV == StoredMsg(Some(<<"V">>), MaxLimit, <<"\\Flagged">>)
mB == StoredMsg(None, MaxLimit, <<>>)
\* messages the destination holds before the first run
dX == StoredMsg(Some(<<"X">>), MaxLimit - 1, <<"altro">>)
dY == StoredMsg(Some(<<"Y">>), MaxLimit, <<>>)

Folder(delimiter, name, msgs) == [delimiter |-> delimiter, name |-> name, msgs |-> msgs]

\* what list_folders() and the source folders hold
Sources ==
    {<<Folder("/", INBOX_Sent, <<mX, mZ>>), Folder("/", Sent, <<mZZ, mW>>)>>,
     <<Folder(".", a_dot_b, <<mX>>), Folder("/", Sent, <<mV, mX, mZ>>)>>,
     <<Folder("/", INBOX_Sent, <<>>), Folder("/", Sent, <<mX, mB, mZ>>)>>,
     <<Folder("/", Sent, <<mZ, mZZ>>)>>}

DstNames == {Sent, a_dot_b, INBOX_Sent}

Absent == [exists |-> FALSE, msgs |-> <<>>]
Present(msgs) == [exists |-> TRUE, msgs |-> msgs]

Destinations ==
    {[n \in DstNames |-> IF n = Sent THEN s ELSE Absent] :
        s \in {Absent, Present(<<dX, dY>>)}}

Excludes == {None, Some(<<<<"a">>>>), Some(<<<<"a", "/", "b", "1">>, <<"b">>>>)}

Arguments ==
    [dry_run : BOOLEAN, exclude : Excludes, limit_size : {None, Some(MaxLimit)},
     buffer_size : 1..MaxBuffer]

\* ---------------------------------------------------------------- state
VARIABLES
    args,         \* the parsed command line
    source,       \* the source store: list_folders() with each folder's messages
    dest,         \* the destination store: folder name -> [exists, msgs]
    run,          \* number of the current run of the program
    prev_ok,      \* the previous run was not dry, completed, and every append succeeded
    dry_reports,  \* the totals logged by the dry run made just before this run, if any
    pc,           \* position of the primary thread in main()
    is_excluded,  \* ExcludeList.excludes
    fidx,         \* index of the current entry of list_folders()
    selected,     \* folder selected on each connection
    dst_exists,
    src_result,   \* source.fetch_all(pre_data): mid -> data
    dst_msg_ids,  \* the presence index
    midx,         \* index of the current source message (its mid)
    msg_copied, bytes_copied, skipped, bytes_total,
    message,      \* the Message fetched for async_write
    p_tmp,        \* value of to_complete loaded by the primary thread
    to_complete,  \* destination.to_complete
    writes,       \* destination.writes: futures, as indices into tasks
    tasks,        \* every future the executor was handed in this run
    workers,      \* the executor's worker threads
    calls,        \* network calls made so far in this run
    pcall,        \* the network call the primary thread is in
    reports,      \* folder totals logged so far in this run
    ex_name, ex_result, ex_pc   \* a single ExcludeList check

config == <<args, source>>
driver == <<pc, is_excluded, fidx, selected, dst_exists, src_result, dst_msg_ids, midx,
            msg_copied, bytes_copied, skipped, bytes_total, message, p_tmp>>
pipeline == <<to_complete, writes, tasks, workers>>
ghost == <<calls, pcall, reports>>
runs == <<run, prev_ok, dry_reports>>
exvars == <<ex_name, ex_result, ex_pc>>
vars == <<config, dest, runs, driver, pipeline, ghost, exvars>>

NoCall == [conn |-> "none", op |-> "none"]
Call(conn, op) == [conn |-> conn, op |-> op]
\* a logged call: connection, operation and the list_folders() entry it was made for
Logged(conn, op, f) == [conn |-> conn, op |-> op, fidx |-> f]

IdleWorker == [pc |-> "idle", task |-> 0, tmp |-> 0]
NoMessage == [id |-> <<>>, size |-> 0, body |-> [hdr |-> None, len |-> 0],
              flags |-> <<>>, folder |-> <<>>, date |-> 0]

\* no folder is selected on either connection (the URLs name none)
NoneSelected == [src |-> None, dst |-> None, src_readonly |-> FALSE, dst_readonly |-> FALSE]

\* the state of a freshly started process
ProcessStart ==
    /\ pc = "start"
    /\ is_excluded = <<>>
    /\ fidx = 0
    /\ selected = NoneSelected
    /\ dst_exists = FALSE
    /\ src_result = <<>>
    /\ dst_msg_ids = {}
    /\ midx = 0
    /\ msg_copied = 0 /\ bytes_copied = 0 /\ skipped = 0 /\ bytes_total = 0
    /\ message = NoMessage
    /\ p_tmp = 0
    /\ to_complete = 0
    /\ writes = <<>>
    /\ tasks = <<>>
    /\ workers = [w \in 1..max_workers |-> IdleWorker]
    /\ calls = {}
    /\ pcall = NoCall
    /\ reports = <<>>

ExIdle == ex_name = <<>> /\ ex_result = FALSE /\ ex_pc = "off"

Init ==
    /\ args \in Arguments
    /\ source \in Sources
    /\ dest \in Destinations
    /\ run = 1
    /\ prev_ok = FALSE
    /\ dry_reports = None
    /\ ProcessStart
    /\ ExIdle

\* ------------------------------------------------- the primary thread
cur == source[fidx]
src_name == cur.name
dst_name == dst_name_of(src_name)

Log(conn, op) == calls' = calls \cup {Logged(conn, op, fidx)}
InCall(conn, op) == pcall' = Call(conn, op) /\ Log(conn, op)
Crash == pc' = "crashed"

\* main, lines 246-251: build the matcher, the executor and both clients
Start ==
    /\ pc = "start"
    /\ IF IsNone(args.exclude)
       THEN Crash /\ UNCHANGED is_excluded
       ELSE pc' = "list_folders" /\ is_excluded' = ExcludeList_init(Val(args.exclude))
    /\ bytes_total' = 0
    /\ UNCHANGED <<fidx, selected, dst_exists, src_result, dst_msg_ids, midx, msg_copied,
                   bytes_copied, skipped, message, p_tmp>>
    /\ UNCHANGED <<config, dest, runs, pipeline, ghost, exvars>>

\* line 252: source.list_folders()
ListFolders ==
    /\ pc = "list_folders"
    /\ pc' = "for_folder"
    /\ InCall("src", "list_folders")
    /\ UNCHANGED <<is_excluded, fidx, selected, dst_exists, src_result, dst_msg_ids, midx,
                   msg_copied, bytes_copied, skipped, bytes_total, message, p_tmp>>
    /\ UNCHANGED <<config, dest, runs, pipeline, reports, exvars>>

\* lines 252-260: next folder; an excluded one is skipped, another is selected
\* read-only on the source; after the last one the total is logged
ForFolder ==
    /\ pc = "for_folder"
    /\ IF fidx = Len(source)
       THEN /\ pc' = "logout_src"
            /\ UNCHANGED <<fidx, selected, calls>>
            /\ pcall' = NoCall
       ELSE LET f == source[fidx + 1] IN
            /\ fidx' = fidx + 1
            /\ IF ExcludeList_call(is_excluded, normalized(f.delimiter, f.name))
               THEN /\ pc' = "for_folder"
                    /\ pcall' = NoCall
                    /\ UNCHANGED <<selected, calls>>
               ELSE /\ pc' = "folder_exists"
                    /\ selected' = [selected EXCEPT !.src = Some(f.name),
                                                     !.src_readonly = select_source_readonly]
                    /\ pcall' = Call("src", "select_folder")
                    /\ calls' = calls \cup {Logged("src", "select_folder", fidx + 1)}
    /\ UNCHANGED <<is_excluded, dst_exists, src_result, dst_msg_ids, midx, msg_copied,
                   bytes_copied, skipped, bytes_total, message, p_tmp>>
    /\ UNCHANGED <<config, dest, runs, pipeline, reports, exvars>>

\* mutant: an absent folder is never created
should_create_never(exists, dry_run) == FALSE

\* mutant: the folder is created in a dry run too
should_create_always(exists, dry_run) == ~exists

\* lines 263-265: if not dst_exists: ... if not args.dry_run:
should_create(exists, dry_run) == ~exists /\ ~dry_run

\* line 262: dst_exists = destination.folder_exists(dst_name)
FolderExists ==
    /\ pc = "folder_exists"
    /\ dst_exists' = dest[dst_name].exists
    /\ InCall("dst", "folder_exists")
    /\ pc' = IF should_create(dst_exists', args.dry_run) THEN "create_folder"
             ELSE IF dst_exists' THEN "select_dst" ELSE "fetch_src"
    /\ UNCHANGED <<is_excluded, fidx, selected, src_result, dst_msg_ids, midx, msg_copied,
                   bytes_copied, skipped, bytes_total, message, p_tmp>>
    /\ UNCHANGED <<config, dest, runs, pipeline, reports, exvars>>

\* line 266: destination.create_folder(dst_name)
CreateFolder ==
    /\ pc = "create_folder"
    /\ dest' = [dest EXCEPT ![dst_name] = Present(<<>>)]
    /\ InCall("dst", "create_folder")
    /\ pc' = "fetch_src"
    /\ UNCHANGED <<is_excluded, fidx, selected, dst_exists, src_result, dst_msg_ids, midx,
                   msg_copied, bytes_copied, skipped, bytes_total, message, p_tmp>>
    /\ UNCHANGED <<config, runs, pipeline, reports, exvars>>

\* lines 268-269: destination.select_folder(dst_name)
SelectDst ==
    /\ pc = "select_dst"
    /\ selected' = [selected EXCEPT !.dst = Some(dst_name), !.dst_readonly = FALSE]
    /\ InCall("dst", "select_folder")
    /\ pc' = "fetch_src"
    /\ UNCHANGED <<is_excluded, fidx, dst_exists, src_result, dst_msg_ids, midx,
                   msg_copied, bytes_copied, skipped, bytes_total, message, p_tmp>>
    /\ UNCHANGED <<config, dest, runs, pipeline, reports, exvars>>

\* fetch_all (lines 64-74) on the source folder selected
src_fetch_all == [mid \in DOMAIN cur.msgs |-> fetch_pre(cur.msgs[mid])]

\* fetch_all (lines 64-74) on the destination folder selected
dst_fetch_all ==
    LET msgs == dest[Val(selected.dst)].msgs IN [i \in DOMAIN msgs |-> fetch_pre(msgs[i])]

\* lines 271-282: the source headers; an empty folder is skipped; the index
\* and the size table start empty
FetchSrc ==
    /\ pc = "fetch_src"
    /\ src_result' = src_fetch_all
    /\ source' = [source EXCEPT ![fidx].msgs =
                      [mid \in DOMAIN @ |-> after_fetch(@[mid], pre_data, selected.src_readonly)]]
    /\ InCall("src", "fetch_all")
    /\ dst_msg_ids' = IF Len(src_result') = 0 THEN dst_msg_ids ELSE {}
    /\ pc' = IF Len(src_result') = 0 THEN "for_folder"
             ELSE IF dst_exists THEN "fetch_dst" ELSE "for_message"
    /\ IF Len(src_result') # 0 /\ ~dst_exists
       THEN midx' = 0 /\ msg_copied' = 0 /\ bytes_copied' = 0 /\ skipped' = 0
       ELSE UNCHANGED <<midx, msg_copied, bytes_copied, skipped>>
    /\ UNCHANGED <<is_excluded, fidx, selected, dst_exists, bytes_total, message, p_tmp>>
    /\ UNCHANGED <<args, dest, runs, pipeline, reports, exvars>>

\* mutant: the identifiers are never added
presence_index_empty(dst_result) == {}

\* lines 284-286: dst_msg_ids.add(dst_header.id) for every destination header
presence_index(dst_result) == {header(dst_result[i]).id : i \in DOMAIN dst_result}

\* lines 280-295: the destination headers, parsed into the presence index
FetchDst ==
    /\ pc = "fetch_dst"
    /\ InCall("dst", "fetch_all")
    /\ dest' = [dest EXCEPT ![Val(selected.dst)].msgs =
                    [i \in DOMAIN @ |-> after_fetch(@[i], pre_data, selected.dst_readonly)]]
    /\ LET dst_result == dst_fetch_all IN
       IF \E i \in DOMAIN dst_result : header_raises(dst_result[i])
       THEN /\ Crash
            /\ UNCHANGED <<dst_msg_ids, midx, msg_copied, bytes_copied, skipped>>
       ELSE /\ dst_msg_ids' = presence_index(dst_result)
            /\ pc' = "for_message"
            /\ midx' = 0 /\ msg_copied' = 0 /\ bytes_copied' = 0 /\ skipped' = 0
    /\ UNCHANGED <<is_excluded, fidx, selected, dst_exists, src_result, bytes_total,
                   message, p_tmp>>
    /\ UNCHANGED <<config, runs, pipeline, reports, exvars>>

\* mutant: the ceiling is exclusive
over_limit_ge(limit_size, size) == ~IsNone(limit_size) /\ size >= Val(limit_size)

\* line 300: not args.limit_size is None and src_header.size > args.limit_size
over_limit(limit_size, size) == ~IsNone(limit_size) /\ size > Val(limit_size)

\* mutant: every message counts as new
in_index_never(id, ids) == FALSE

\* line 299: src_header.id in dst_msg_ids
in_index(id, ids) == id \in ids

\* mutant: a dry run writes
should_write_always(dry_run) == TRUE

\* line 309: if not args.dry_run:
should_write(dry_run) == ~dry_run

\* lines 297-315: decide the next source message; after the last one, drain
ForMessage ==
    /\ pc = "for_message"
    /\ pcall' = NoCall
    /\ IF midx = Len(src_result)
       THEN /\ pc' = "wait_writes"
            /\ UNCHANGED <<midx, msg_copied, bytes_copied, skipped>>
       ELSE LET data == src_result[midx + 1] IN
            IF header_raises(data)
            THEN /\ Crash
                 /\ UNCHANGED <<midx, msg_copied, bytes_copied, skipped>>
            ELSE LET src_header == header(data) IN
                 /\ midx' = midx + 1
                 /\ IF ~in_index(src_header.id, dst_msg_ids)
                    THEN IF over_limit(args.limit_size, src_header.size)
                         THEN /\ pc' = "for_message"
                              /\ UNCHANGED <<msg_copied, bytes_copied, skipped>>
                         ELSE /\ msg_copied' = msg_copied + 1
                              /\ bytes_copied' = bytes_copied + src_header.size
                              /\ pc' = IF should_write(args.dry_run) THEN "wait_partial"
                                       ELSE "for_message"
                              /\ UNCHANGED skipped
                    ELSE /\ skipped' = skipped + 1
                         /\ pc' = "for_message"
                         /\ UNCHANGED <<msg_copied, bytes_copied>>
    /\ UNCHANGED <<is_excluded, fidx, selected, dst_exists, src_result, dst_msg_ids,
                   bytes_total, message, p_tmp>>
    /\ UNCHANGED <<config, dest, runs, pipeline, calls, reports, exvars>>

\* ------------------------------------------------- the write pipeline
Task(msg) == [msg |-> msg, fidx |-> fidx, mid |-> midx, st |-> "pending",
              cb |-> FALSE, called |-> FALSE, ok |-> "none", attempts |-> 0]

finished(h) == tasks[h].st = "finished"

\* mutant: the test is off by one
must_wait_gt(count, buffer_size) == count > buffer_size

\* line 95: while self.to_complete >= self.buffer_size
must_wait(count, buffer_size) == count >= buffer_size

\* line 95: wait_partial, the loop test
WaitPartial ==
    /\ pc = "wait_partial"
    /\ pc' = IF must_wait(to_complete, args.buffer_size) THEN "wait_partial_wait"
             ELSE "fetch_body"
    /\ pcall' = NoCall
    /\ UNCHANGED <<is_excluded, fidx, selected, dst_exists, src_result, dst_msg_ids, midx,
                   msg_copied, bytes_copied, skipped, bytes_total, message, p_tmp>>
    /\ UNCHANGED <<config, dest, runs, pipeline, calls, reports, exvars>>

\* lines 96-98: futures.wait(self.writes, 5.0, FIRST_COMPLETED) returns, on a
\* completion or on its time-out, and the futures found done leave writes
WaitPartialWait ==
    /\ pc = "wait_partial_wait"
    /\ writes' = SelectSeq(writes, LAMBDA h : ~finished(h))
    /\ pc' = "wait_partial"
    /\ UNCHANGED <<is_excluded, fidx, selected, dst_exists, src_result, dst_msg_ids, midx,
                   msg_copied, bytes_copied, skipped, bytes_total, message, p_tmp>>
    /\ UNCHANGED <<config, dest, runs, to_complete, tasks, workers, ghost, exvars>>

\* lines 311-312: source.fetch(mid, ...) and MessageParser.message
FetchBody ==
    /\ pc = "fetch_body"
    /\ message' = message_of(dst_name, header(src_result[midx]).id,
                             fetch_full(source[fidx].msgs[midx]))
    /\ source' = [source EXCEPT ![fidx].msgs[midx] =
                      after_fetch(@, full_data, selected.src_readonly)]
    /\ InCall("src", "fetch")
    /\ pc' = "aw_load"
    /\ UNCHANGED <<is_excluded, fidx, selected, dst_exists, src_result, dst_msg_ids, midx,
                   msg_copied, bytes_copied, skipped, bytes_total, p_tmp>>
    /\ UNCHANGED <<args, dest, runs, pipeline, reports, exvars>>

\* line 89, self.to_complete += 1: the load
AsyncWriteLoad ==
    /\ pc = "aw_load"
    /\ p_tmp' = to_complete
    /\ pc' = "aw_store"
    /\ pcall' = NoCall
    /\ UNCHANGED <<is_excluded, fidx, selected, dst_exists, src_result, dst_msg_ids, midx,
                   msg_copied, bytes_copied, skipped, bytes_total, message>>
    /\ UNCHANGED <<config, dest, runs, pipeline, calls, reports, exvars>>

\* line 89, self.to_complete += 1: the store
AsyncWriteStore ==
    /\ pc = "aw_store"
    /\ to_complete' = p_tmp + 1
    /\ p_tmp' = 0
    /\ pc' = "aw_submit"
    /\ UNCHANGED <<is_excluded, fidx, selected, dst_exists, src_result, dst_msg_ids, midx,
                   msg_copied, bytes_copied, skipped, bytes_total, message>>
    /\ UNCHANGED <<config, dest, runs, writes, tasks, workers, ghost, exvars>>

\* line 90: future = self.executor.submit(self.write, message)
Submit ==
    /\ pc = "aw_submit"
    /\ tasks' = Append(tasks, Task(message))
    /\ pc' = "aw_callback"
    /\ UNCHANGED <<is_excluded, fidx, selected, dst_exists, src_result, dst_msg_ids, midx,
                   msg_copied, bytes_copied, skipped, bytes_total, message, p_tmp>>
    /\ UNCHANGED <<config, dest, runs, to_complete, writes, workers, ghost, exvars>>

\* line 91: future.add_done_callback(self.end_of_write); a future already
\* done runs the callback at once, in the calling thread
AddDoneCallback ==
    /\ pc = "aw_callback"
    /\ IF finished(Len(tasks))
       THEN pc' = "eow_load" /\ UNCHANGED tasks
       ELSE pc' = "aw_append" /\ tasks' = [tasks EXCEPT ![Len(tasks)].cb = TRUE]
    /\ UNCHANGED <<is_excluded, fidx, selected, dst_exists, src_result, dst_msg_ids, midx,
                   msg_copied, bytes_copied, skipped, bytes_total, message, p_tmp>>
    /\ UNCHANGED <<config, dest, runs, to_complete, writes, workers, ghost, exvars>>

\* line 86, self.to_complete -= 1, run by the primary thread: the load
CallbackLoad ==
    /\ pc = "eow_load"
    /\ p_tmp' = to_complete
    /\ pc' = "eow_store"
    /\ UNCHANGED <<is_excluded, fidx, selected, dst_exists, src_result, dst_msg_ids, midx,
                   msg_copied, bytes_copied, skipped, bytes_total, message>>
    /\ UNCHANGED <<config, dest, runs, pipeline, ghost, exvars>>

\* line 86, self.to_complete -= 1, run by the primary thread: the store
CallbackStore ==
    /\ pc = "eow_store"
    /\ to_complete' = p_tmp - 1
    /\ p_tmp' = 0
    /\ tasks' = [tasks EXCEPT ![Len(tasks)].called = TRUE]
    /\ pc' = "aw_append"
    /\ UNCHANGED <<is_excluded, fidx, selected, dst_exists, src_result, dst_msg_ids, midx,
                   msg_copied, bytes_copied, skipped, bytes_total, message>>
    /\ UNCHANGED <<config, dest, runs, writes, workers, ghost, exvars>>

\* line 92: self.writes.append(future)
WritesAppend ==
    /\ pc = "aw_append"
    /\ writes' = Append(writes, Len(tasks))
    /\ pc' = "for_message"
    /\ UNCHANGED <<is_excluded, fidx, selected, dst_exists, src_result, dst_msg_ids, midx,
                   msg_copied, bytes_copied, skipped, bytes_total, message, p_tmp>>
    /\ UNCHANGED <<config, dest, runs, to_complete, tasks, workers, ghost, exvars>>

\* mutant: the drain returns on the first completion
wait_writes_first(ws, ts) == ws = <<>> \/ \E i \in DOMAIN ws : ts[ws[i]].st = "finished"

\* lines 102-103: if self.writes: futures.wait(self.writes) returns
wait_writes_returns(ws, ts) == \A i \in DOMAIN ws : ts[ws[i]].st = "finished"

\* lines 320-321: destination.wait_writes()
WaitWrites ==
    /\ pc = "wait_writes"
    /\ wait_writes_returns(writes, tasks)
    /\ pc' = "report"
    /\ UNCHANGED <<is_excluded, fidx, selected, dst_exists, src_result, dst_msg_ids, midx,
                   msg_copied, bytes_copied, skipped, bytes_total, message, p_tmp>>
    /\ UNCHANGED <<config, dest, runs, pipeline, ghost, exvars>>

\* lines 322-325: the folder's totals
Report ==
    /\ pc = "report"
    /\ reports' = Append(reports, [fidx |-> fidx, msg_copied |-> msg_copied,
                                   bytes_copied |-> bytes_copied, skipped |-> skipped])
    /\ bytes_total' = bytes_total + bytes_copied
    /\ pc' = "for_folder"
    /\ UNCHANGED <<is_excluded, fidx, selected, dst_exists, src_result, dst_msg_ids, midx,
                   msg_copied, bytes_copied, skipped, message, p_tmp>>
    /\ UNCHANGED <<config, dest, runs, pipeline, calls, pcall, exvars>>

\* lines 326-327: source.logout()
LogoutSrc ==
    /\ pc = "logout_src"
    /\ pcall' = Call("src", "logout")
    /\ calls' = calls \cup {Logged("src", "logout", 0)}
    /\ pc' = "logout_dst"
    /\ UNCHANGED <<is_excluded, fidx, selected, dst_exists, src_result, dst_msg_ids, midx,
                   msg_copied, bytes_copied, skipped, bytes_total, message, p_tmp>>
    /\ UNCHANGED <<config, dest, runs, pipeline, reports, exvars>>

\* line 328: destination.logout()
LogoutDst ==
    /\ pc = "logout_dst"
    /\ pcall' = Call("dst", "logout")
    /\ calls' = calls \cup {Logged("dst", "logout", 0)}
    /\ pc' = "done"
    /\ UNCHANGED <<is_excluded, fidx, selected, dst_exists, src_result, dst_msg_ids, midx,
                   msg_copied, bytes_copied, skipped, bytes_total, message, p_tmp>>
    /\ UNCHANGED <<config, dest, runs, pipeline, reports, exvars>>

\* ------------------------------------------------- the executor's worker
pending == {h \in DOMAIN tasks : tasks[h].st = "pending"}
first_pending == CHOOSE h \in pending : \A g \in pending : h <= g

\* lines 76-81: a worker takes the oldest queued call of write and enters append
WorkerTake(w) ==
    /\ workers[w].pc = "idle"
    /\ pending # {}
    /\ LET h == first_pending IN
       /\ tasks' = [tasks EXCEPT ![h].st = "running", ![h].attempts = @ + 1]
       /\ workers' = [workers EXCEPT ![w] = [pc |-> "append", task |-> h, tmp |-> 0]]
       /\ calls' = calls \cup {Logged("dst", "append", tasks[h].fidx)}
    /\ UNCHANGED <<config, dest, runs, driver, to_complete, writes, pcall, reports, exvars>>

\* appends that raised so far in this run
failures == Cardinality({h \in DOMAIN tasks : tasks[h].ok = "err"})

\* mutant: a failed write is queued again
after_write_retry(ok) == IF ok THEN "finished" ELSE "pending"

\* lines 80-83: write returns normally whether append raised or not
after_write(ok) == "finished"

\* lines 81-83: append succeeds or raises; the future is then done, and its
\* callback, if one is registered by now, runs in this thread
WorkerAppend(w) ==
    /\ workers[w].pc = "append"
    /\ LET h == workers[w].task
           folder == tasks[h].msg.folder IN
       \E ok \in {b \in BOOLEAN : /\ (b => dest[folder].exists)
                                   /\ (~b /\ dest[folder].exists => failures < MaxFailures)} :
           /\ dest' = IF ok THEN [dest EXCEPT ![folder].msgs = Append(@, appended(tasks[h].msg))]
                      ELSE dest
           /\ tasks' = [tasks EXCEPT ![h].st = after_write(ok),
                                     ![h].ok = IF ok THEN "ok" ELSE "err"]
           /\ workers' = [workers EXCEPT ![w].pc =
                              IF tasks[h].cb /\ after_write(ok) = "finished"
                              THEN "eow_load" ELSE "idle"]
    /\ UNCHANGED <<config, runs, driver, to_complete, writes, ghost, exvars>>

\* line 86, self.to_complete -= 1, run by the worker: the load
WorkerCallbackLoad(w) ==
    /\ workers[w].pc = "eow_load"
    /\ workers' = [workers EXCEPT ![w].tmp = to_complete, ![w].pc = "eow_store"]
    /\ UNCHANGED <<config, dest, runs, driver, to_complete, writes, tasks, ghost, exvars>>

\* line 86, self.to_complete -= 1, run by the worker: the store
WorkerCallbackStore(w) ==
    /\ workers[w].pc = "eow_store"
    /\ to_complete' = workers[w].tmp - 1
    /\ tasks' = [tasks EXCEPT ![workers[w].task].called = TRUE]
    /\ workers' = [workers EXCEPT ![w] = IdleWorker]
    /\ UNCHANGED <<config, dest, runs, driver, writes, ghost, exvars>>

\* ------------------------------------------------------------ the runs
all_ok == \A h \in DOMAIN tasks : tasks[h].ok = "ok"
quiescent == pending = {} /\ \A w \in DOMAIN workers : workers[w].pc = "idle"

\* the process has ended and the program is started again, on the same source
\* with the same arguments, against the destination as the last run left it
Restart ==
    /\ pc \in {"done", "crashed"}
    /\ quiescent
    /\ run < MaxRuns
    /\ run' = run + 1
    /\ prev_ok' = (pc = "done" /\ ~args.dry_run /\ all_ok)
    /\ dry_reports' = None
    /\ pc' = "start"
    /\ is_excluded' = <<>>
    /\ fidx' = 0
    /\ selected' = NoneSelected
    /\ dst_exists' = FALSE
    /\ src_result' = <<>>
    /\ dst_msg_ids' = {}
    /\ midx' = 0
    /\ msg_copied' = 0 /\ bytes_copied' = 0 /\ skipped' = 0 /\ bytes_total' = 0
    /\ message' = NoMessage
    /\ p_tmp' = 0
    /\ to_complete' = 0
    /\ writes' = <<>>
    /\ tasks' = <<>>
    /\ workers' = [w \in 1..max_workers |-> IdleWorker]
    /\ calls' = {}
    /\ pcall' = NoCall
    /\ reports' = <<>>
    /\ UNCHANGED <<config, dest, exvars>>

\* a dry run has completed and the program is started again without --dry-run,
\* its other arguments and the source being the same
RestartWithoutDryRun ==
    /\ pc = "done"
    /\ args.dry_run
    /\ quiescent
    /\ run < MaxRuns
    /\ run' = run + 1
    /\ args' = [args EXCEPT !.dry_run = FALSE]
    /\ prev_ok' = FALSE
    /\ dry_reports' = Some([reports |-> reports, bytes_total |-> bytes_total])
    /\ pc' = "start"
    /\ is_excluded' = <<>>
    /\ fidx' = 0
    /\ selected' = NoneSelected
    /\ dst_exists' = FALSE
    /\ src_result' = <<>>
    /\ dst_msg_ids' = {}
    /\ midx' = 0
    /\ msg_copied' = 0 /\ bytes_copied' = 0 /\ skipped' = 0 /\ bytes_total' = 0
    /\ message' = NoMessage
    /\ p_tmp' = 0
    /\ to_complete' = 0
    /\ writes' = <<>>
    /\ tasks' = <<>>
    /\ workers' = [w \in 1..max_workers |-> IdleWorker]
    /\ calls' = {}
    /\ pcall' = NoCall
    /\ reports' = <<>>
    /\ UNCHANGED <<source, dest, exvars>>

Next ==
    \/ Start \/ ListFolders \/ ForFolder \/ FolderExists \/ CreateFolder \/ SelectDst
    \/ FetchSrc \/ FetchDst \/ ForMessage
    \/ WaitPartial \/ WaitPartialWait \/ FetchBody
    \/ AsyncWriteLoad \/ AsyncWriteStore \/ Submit \/ AddDoneCallback
    \/ CallbackLoad \/ CallbackStore \/ WritesAppend
    \/ WaitWrites \/ Report \/ LogoutSrc \/ LogoutDst
    \/ \E w \in DOMAIN workers :
          WorkerTake(w) \/ WorkerAppend(w) \/ WorkerCallbackLoad(w) \/ WorkerCallbackStore(w)
    \/ Restart \/ RestartWithoutDryRun

Spec == Init /\ [][Next]_vars

\* the steps of the primary thread, which runs main()
Primary ==
    \/ Start \/ ListFolders \/ ForFolder \/ FolderExists \/ CreateFolder \/ SelectDst
    \/ FetchSrc \/ FetchDst \/ ForMessage
    \/ WaitPartial \/ WaitPartialWait \/ FetchBody
    \/ AsyncWriteLoad \/ AsyncWriteStore \/ Submit \/ AddDoneCallback
    \/ CallbackLoad \/ CallbackStore \/ WritesAppend
    \/ WaitWrites \/ Report \/ LogoutSrc \/ LogoutDst

\* the steps of worker thread w of the executor
Worker(w) ==
    WorkerTake(w) \/ WorkerAppend(w) \/ WorkerCallbackLoad(w) \/ WorkerCallbackStore(w)

\* Both threads are scheduled fairly: a thread that can take a step takes
\* one.  futures.wait in wait_partial returns after 5 s at the latest, and
\* an append returns, so a thread is never stuck inside a step.
FairSpec == Spec /\ WF_vars(Primary) /\ \A w \in 1..max_workers : WF_vars(Worker(w))

\* ------------------------------------------- ExcludeList on its own
\* The matcher as a pure function: a list of entries and a path are drawn,
\* the matcher is constructed and called once.
Alphabet == {"a", "1", "/"}

StringsUpTo(n) == UNION {[1..k -> Alphabet] : k \in 1..n}

RECURSIVE split(_)
\* the pieces of s between slashes
split(s) ==
    IF \A i \in DOMAIN s : s[i] # "/" THEN <<s>>
    ELSE LET i == CHOOSE j \in DOMAIN s : s[j] = "/" /\ \A k \in 1..(j - 1) : s[k] # "/" IN
         <<SubSeq(s, 1, i - 1)>> \o split(SubSeq(s, i + 1, Len(s)))

\* the path segments of s: a closing slash ends the last segment
segments(s) ==
    LET p == split(s) IN IF p[Len(p)] = <<>> THEN SubSeq(p, 1, Len(p) - 1) ELSE p

\* a slash-delimited path of non-empty segments
well_formed(s) == s # <<>> /\ \A i \in DOMAIN segments(s) : segments(s)[i] # <<>>

\* path is the entry or lies in the subtree below it
under(entry, path) ==
    LET e == segments(entry)
        q == segments(path) IN
    Len(e) <= Len(q) /\ SubSeq(q, 1, Len(e)) = e

Paths == {s \in StringsUpTo(MaxPathLen) : well_formed(s)}
Entries == {s \in StringsUpTo(MaxExLen) : well_formed(s)}
EntryLists == UNION {[1..k -> Entries] : k \in 0..MaxExcludes}

\* the doctest of ExcludeList.__call__, with the names it tries and 'b/b10'
DocExcludes == << <<"a">>, <<"b", "/", "b", "1">>, <<"c", "/", "c", "1", "/", "c", "2">> >>
DocExcluded ==
    { <<"a">>, <<"a", "/", "t", "e", "s", "t">>, <<"b", "/", "b", "1">>,
      <<"c", "/", "c", "1", "/", "c", "2", "/">>,
      <<"c", "/", "c", "1", "/", "c", "2", "/", "c", "3">> }
DocNotExcluded ==
    { <<"a", "1">>, <<"b", "1">>, <<"b", "/", "b">>, <<"b", "/", "b", "1", "0">>,
      <<"c", "/", "c", "1">> }

InitExclude ==
    /\ \/ /\ args \in [dry_run : {FALSE}, exclude : {Some(l) : l \in EntryLists},
                       limit_size : {None}, buffer_size : {1}]
          /\ ex_name \in Paths
       \/ /\ args = [dry_run |-> FALSE, exclude |-> Some(DocExcludes),
                     limit_size |-> None, buffer_size |-> 1]
          /\ ex_name \in DocExcluded \cup DocNotExcluded
    /\ ex_result = FALSE
    /\ ex_pc = "construct"
    /\ source = <<>>
    /\ dest = [n \in DstNames |-> Absent]
    /\ run = 1
    /\ prev_ok = FALSE
    /\ dry_reports = None
    /\ ProcessStart

\* ExcludeList(args.exclude)
ExConstruct ==
    /\ ex_pc = "construct"
    /\ is_excluded' = ExcludeList_init(Val(args.exclude))
    /\ ex_pc' = "call"
    /\ UNCHANGED <<pc, fidx, selected, dst_exists, src_result, dst_msg_ids, midx,
                   msg_copied, bytes_copied, skipped, bytes_total, message, p_tmp>>
    /\ UNCHANGED <<config, dest, runs, pipeline, ghost, ex_name, ex_result>>

\* is_excluded(name)
ExCall ==
    /\ ex_pc = "call"
    /\ ex_result' = ExcludeList_call(is_excluded, ex_name)
    /\ ex_pc' = "done"
    /\ UNCHANGED <<config, dest, runs, driver, pipeline, ghost, ex_name>>

NextExclude == ExConstruct \/ ExCall

SpecExclude == InitExclude /\ [][NextExclude]_vars

\* C8: once the matcher has answered, the answer is true exactly when the path,
\* read as a sequence of whole segments, is an entry of the list or lies in the
\* subtree below one; the names of the doctest get the answers it documents.
C8_ExcludeBySegments ==
    ex_pc = "done" =>
        LET l == Val(args.exclude) IN
        /\ ex_result <=> \E i \in DOMAIN l : under(l[i], ex_name)
        /\ l = DocExcludes /\ ex_name \in DocExcluded => ex_result
        /\ l = DocExcludes /\ ex_name \in DocNotExcluded => ~ex_result

\* C8 witness: the doctest list has been asked about 'b/b10', which shares
\* the characters but not the segments of its entry 'b/b1', and has said no
C8_Witness ==
    /\ ex_pc = "done"
    /\ Val(args.exclude) = DocExcludes
    /\ ex_name = <<"b", "/", "b", "1", "0">>
    /\ ~ex_result

\* ------------------------------------------------------ the claims
\* the primary thread is between the first decision and the report of the
\* folder at fidx
in_folder ==
    pc \in {"for_message", "wait_partial", "wait_partial_wait", "fetch_body", "aw_load",
            "aw_store", "aw_submit", "aw_callback", "eow_load", "eow_store", "aw_append",
            "wait_writes", "report"}

\* futures submitted while folder f was processed
folder_tasks(f) == {h \in DOMAIN tasks : tasks[h].fidx = f}
\* identifiers submitted for writing for folder f
submitted_ids(f) == {tasks[h].msg.id : h \in folder_tasks(f)}
\* identifier of the source message mid of the current folder
src_id(mid) == header(src_result[mid]).id
\* source messages of the current folder decided so far
decided == 1..midx

\* identifiers of the messages the destination folder of the current source
\* folder held before the first append submitted for this source folder
ids_at_folder_start ==
    LET msgs == dest[dst_name].msgs
        written == Cardinality({h \in folder_tasks(fidx) : tasks[h].ok = "ok"}) IN
    {strip(Val(msgs[i].body.hdr)) : i \in 1..(Len(msgs) - written)}

\* the index holds the identifiers the destination folder held when the
\* folder's processing began (none if it did not exist), no future of the
\* current folder carries an identifier of the index, and skipped counts the
\* decided source messages whose identifier is in it
C1_IndexRespected ==
    in_folder =>
        /\ dst_msg_ids = IF dst_exists THEN ids_at_folder_start ELSE {}
        /\ \A h \in folder_tasks(fidx) : tasks[h].msg.id \notin dst_msg_ids
        /\ skipped = Cardinality({m \in decided : src_id(m) \in dst_msg_ids})

\* C1 (as amended): a source message whose identifier is in the presence index
\* is never submitted and only counts as skipped; in a run that is not dry and
\* has no size ceiling, the identifiers submitted for a folder are, once its
\* messages are all decided, exactly the source identifiers not in the index.
C1_Dedup ==
    /\ C1_IndexRespected
    /\ pc = "report" /\ ~args.dry_run /\ IsNone(args.limit_size) =>
           submitted_ids(fidx) = {src_id(m) : m \in DOMAIN src_result} \ dst_msg_ids

\* C1 (as claimed): the same for every run, dry or not
C1_AsClaimed ==
    /\ C1_IndexRespected
    /\ pc = "report" /\ IsNone(args.limit_size) =>
           submitted_ids(fidx) = {src_id(m) : m \in DOMAIN src_result} \ dst_msg_ids

\* C1 witness: index {X, Y}, source {X, Z}: exactly Z was submitted, X skipped
C1_Witness ==
    /\ pc = "report" /\ ~args.dry_run /\ IsNone(args.limit_size)
    /\ dst_msg_ids = {<<"X">>, <<"Y">>}
    /\ {src_id(m) : m \in DOMAIN src_result} = {<<"X">>, <<"Z">>}
    /\ submitted_ids(fidx) = {<<"Z">>}
    /\ skipped = 1

\* C2: after a run that was not dry, completed and had every append succeed,
\* the next run on the unchanged source submits no append and counts no
\* message as copied, in any folder.
C2_Idempotent ==
    run > 1 /\ prev_ok =>
        /\ tasks = <<>>
        /\ msg_copied = 0
        /\ \A i \in DOMAIN reports : reports[i].msg_copied = 0

\* C2 witness: the second run has ended; the first one had appended messages,
\* which the second found in the index and skipped
C2_Witness ==
    /\ run = 2 /\ prev_ok /\ pc = "done"
    /\ tasks = <<>>
    /\ \E i \in DOMAIN reports : reports[i].skipped >= 2
    /\ \E n \in DstNames : Len(dest[n].msgs) >= 3

\* write tasks submitted and not yet completed
outstanding == {h \in DOMAIN tasks : tasks[h].st # "finished"}

\* C3: the number of write tasks submitted and not yet completed never
\* exceeds buffer_size (so a submission made with buffer_size tasks
\* outstanding, which would make it buffer_size + 1, never happens).
C3_BackpressureBound == Cardinality(outstanding) <= args.buffer_size

to_copy(mids) ==
    {m \in mids : /\ src_id(m) \notin dst_msg_ids
                  /\ \A L \in args.limit_size : src_result[m].size <= L}

\* the callback of future h is running or about to run
in_callback(h) ==
    \/ \E w \in DOMAIN workers : workers[w].task = h /\ workers[w].pc \in {"eow_load", "eow_store"}
    \/ h = Len(tasks) /\ pc \in {"aw_callback", "eow_load", "eow_store"}

\* non-excluded, non-empty source folders
reported_folders ==
    {i \in DOMAIN source :
        /\ ~ExcludeList_call(is_excluded, normalized(source[i].delimiter, source[i].name))
        /\ source[i].msgs # <<>>}

\* C5: a write whose append raised is done like any other (its callback runs,
\* so the counter is decremented, and waiters see it finished), append is
\* called at most once for it and a source message is submitted at most once,
\* the primary thread fails only where the matcher cannot be built or a header
\* has no identifier, and the messages and folders after the failed one are
\* submitted and reported as if nothing had failed.
C5_WriteFailureContained ==
    /\ \A h \in DOMAIN tasks :
          /\ tasks[h].attempts <= 1
          /\ tasks[h].ok = "err" => finished(h) /\ (tasks[h].called \/ in_callback(h))
          /\ \A g \in DOMAIN tasks :
                tasks[g].fidx = tasks[h].fidx /\ tasks[g].mid = tasks[h].mid => g = h
    /\ pc = "crashed" =>
          \/ IsNone(args.exclude)
          \/ midx < Len(src_result) /\ header_raises(src_result[midx + 1])
    /\ pc \in {"for_message", "wait_writes", "report"} /\ ~args.dry_run =>
          {tasks[h].mid : h \in folder_tasks(fidx)} = to_copy(decided)
    /\ pc = "done" => {reports[i].fidx : i \in DOMAIN reports} = reported_folders

\* C5 witness: the run has ended; an append of the first folder raised, its
\* callback ran, and messages of the same and of the next folder were written
C5_Witness ==
    /\ pc = "done"
    /\ \E h \in DOMAIN tasks :
          /\ tasks[h].ok = "err" /\ tasks[h].called /\ tasks[h].fidx = 1
          /\ \E g \in DOMAIN tasks : g > h /\ tasks[g].fidx = 1 /\ tasks[g].ok = "ok"
          /\ \E g \in DOMAIN tasks : g > h /\ tasks[g].fidx = 2 /\ tasks[g].ok = "ok"

\* C6: once wait_writes has returned every append submitted so far is over;
\* a future not yet done belongs to the folder the primary thread is in, so
\* nothing is done for a folder while an append of an earlier one runs, and a
\* folder's totals are reported with all its appends over.
C6_DrainBeforeNextFolder ==
    /\ pc = "report" => outstanding = {}
    /\ \A h \in outstanding : tasks[h].fidx = fidx
    /\ \A i \in DOMAIN reports : \A h \in folder_tasks(reports[i].fidx) : finished(h)

\* C6 witness: the drain of the second folder has returned with two of its
\* writes and one of the first folder done
C6_Witness ==
    /\ pc = "report" /\ fidx = 2
    /\ Cardinality(folder_tasks(2)) >= 2
    /\ Cardinality(folder_tasks(1)) >= 1

\* futures whose append is running
appending == {h \in DOMAIN tasks : tasks[h].st = "running"}

\* C7: two appends never run at the same time, and the primary thread is
\* never in a network call on the destination while an append runs.
C7_ExclusiveDestination ==
    /\ Cardinality(appending) <= 1
    /\ pcall.conn = "dst" => appending = {}

\* C7 witness: the primary thread asks the destination whether the second
\* folder exists, after writes for the first
C7_Witness ==
    /\ pcall = Call("dst", "folder_exists") /\ fidx = 2
    /\ folder_tasks(1) # {}

\* entry i of list_folders() lies, by whole segments of its path with the
\* delimiter replaced by a slash, in the subtree of an entry of --exclude
excluded_folder(i) ==
    /\ ~IsNone(args.exclude)
    /\ \E k \in DOMAIN Val(args.exclude) :
          under(Val(args.exclude)[k], str_replace(source[i].name, source[i].delimiter, "/"))

\* no call, future or report carries the index of an excluded folder
C9_Untouched ==
    \A i \in DOMAIN source :
        excluded_folder(i) =>
            /\ \A c \in calls : c.fidx # i
            /\ folder_tasks(i) = {}
            /\ \A k \in DOMAIN reports : reports[k].fidx # i

\* the step of the loop from an excluded folder leaves counters, reports,
\* logged calls and selected folders alone
C9_StepOver ==
    pc = "for_folder" /\ fidx < Len(source) /\ excluded_folder(fidx + 1) =>
        UNCHANGED <<msg_copied, bytes_copied, skipped, bytes_total, reports, calls, selected>>

\* C9: for an excluded source folder no call is made on either connection, no
\* future is submitted and no totals are reported, and the step of the loop
\* that passes over it leaves the statistics counters as they were.
C9_ExcludedFolderUntouched == []C9_Untouched /\ [][C9_StepOver]_vars

\* C9 witness: the run has ended; 'a.b' was excluded by the entry 'a' and
\* passed over, the folder after it was processed
C9_Witness ==
    /\ pc = "done"
    /\ source[1].name = a_dot_b /\ excluded_folder(1)
    /\ \E k \in DOMAIN reports : reports[k].fidx = 2

\* the sum of the sizes of the source messages mids of the current folder
RECURSIVE sum_sizes(_)
sum_sizes(mids) ==
    IF mids = {} THEN 0
    ELSE LET m == CHOOSE x \in mids : TRUE IN src_result[m].size + sum_sizes(mids \ {m})

\* the counters count the messages to copy, and only they are ever submitted
C10_Counters ==
    in_folder =>
        /\ msg_copied = Cardinality(to_copy(decided))
        /\ bytes_copied = sum_sizes(to_copy(decided))
        /\ skipped = Cardinality({m \in decided : src_id(m) \in dst_msg_ids})
        /\ {tasks[h].mid : h \in folder_tasks(fidx)} \subseteq to_copy(decided)

\* C10 (as amended): with a ceiling L, a source message not in the index is
\* counted as copied, and in a run that is not dry submitted, iff its size is at
\* most L; one above L is neither submitted nor counted as copied or skipped;
\* without a ceiling no message is left out for its size.
C10_SizeCeiling ==
    /\ C10_Counters
    /\ pc = "report" /\ ~args.dry_run =>
           {tasks[h].mid : h \in folder_tasks(fidx)} = to_copy(DOMAIN src_result)

\* C10 (as claimed): submitted iff not above the ceiling, in every run
C10_AsClaimed ==
    /\ C10_Counters
    /\ pc = "report" =>
           {tasks[h].mid : h \in folder_tasks(fidx)} = to_copy(DOMAIN src_result)

\* C10 witness: with ceiling L, a message of size L was written in the first
\* folder, and the second folder holds one of size L + 1, not in the index,
\* of which nothing was submitted or counted
C10_Witness ==
    /\ pc = "report" /\ fidx = 2 /\ ~args.dry_run
    /\ args.limit_size = Some(MaxLimit)
    /\ \E h \in folder_tasks(1) : tasks[h].msg.size = MaxLimit /\ tasks[h].ok = "ok"
    /\ \E m \in DOMAIN src_result :
          /\ src_result[m].size = MaxLimit + 1
          /\ src_id(m) \notin dst_msg_ids
          /\ \A h \in folder_tasks(2) : tasks[h].mid # m
    /\ msg_copied = 0 /\ bytes_copied = 0 /\ skipped = 1

\* the operations the run may issue on the source connection
SourceOps == {"list_folders", "select_folder", "fetch_all", "fetch", "logout"}

\* every call on the source is one of these, the source folder selected is
\* selected read-only, and every append is addressed to the destination
C11_SourceCalls ==
    /\ \A c \in calls : c.conn = "src" => c.op \in SourceOps
    /\ pcall.conn = "src" => pcall.op \in SourceOps
    /\ ~IsNone(selected.src) => selected.src_readonly
    /\ \A c \in calls : c.op \in {"append", "create_folder"} => c.conn = "dst"

C12_PerMessageErrorsContained ==
    \A m \in DOMAIN src_result : header_raises(src_result[m]) => pc # "crashed"

\* every call of wait_partial returns
C13_WaitPartialReturns == (pc = "wait_partial") ~> (pc = "fetch_body")

\* every drain returns
C13_WaitWritesReturns == (pc = "wait_writes") ~> (pc = "report")

\* C13: under fair scheduling every call of wait_partial returns, and every
\* run that is started drains its last folder and logs out of both stores.
C13_Liveness ==
    /\ C13_WaitPartialReturns
    /\ (pc = "start") ~> (pc = "done")

\* C14: a run that is not dry, in which every append succeeded, logs for every
\* folder the messages_copied, bytes_copied and messages_skipped, and the
\* bytes_total, that the dry run made just before it on the same stores with
\* the same configuration had logged.
C14_DryRunCountersMatch ==
    pc = "done" /\ ~IsNone(dry_reports) /\ all_ok =>
        /\ reports = Val(dry_reports).reports
        /\ bytes_total = Val(dry_reports).bytes_total

\* C15: a run started with no excluded folder path does not end in an error,
\* and once it has ended every folder of list_folders() was selected on the
\* source.
C15_ExcludeListOptional ==
    IsNone(args.exclude) =>
        /\ pc # "crashed"
        /\ pc = "done" =>
               \A i \in DOMAIN source : Logged("src", "select_folder", i) \in calls

\* identifiers of the messages destination folder n held when the run began
ids_at_run_start(n) ==
    LET msgs == dest[n].msgs
        written == Cardinality({h \in DOMAIN tasks :
                                   tasks[h].msg.folder = n /\ tasks[h].ok = "ok"}) IN
    {strip(Val(msgs[i].body.hdr)) : i \in 1..(Len(msgs) - written)}

\* C16: in one run no two appends submitted to the same destination folder
\* carry the same identifier, and none carries an identifier the folder held
\* when the run began.
C16_NoDuplicates ==
    \A h \in DOMAIN tasks :
        /\ tasks[h].msg.id \notin ids_at_run_start(tasks[h].msg.folder)
        /\ \A g \in DOMAIN tasks :
              /\ tasks[g].msg.folder = tasks[h].msg.folder
              /\ tasks[g].msg.id = tasks[h].msg.id
              => g = h

\* submitted tasks whose completion callback has not run yet
not_called == {h \in DOMAIN tasks : ~tasks[h].called}

\* C17: to_complete is never negative; it equals the number of submitted tasks
\* whose completion callback has not yet run (plus one between the increment
\* of async_write and the submit that follows it); and it is 0 once a folder
\* is drained and all callbacks have run.
C17_CounterConsistent ==
    /\ to_complete >= 0
    /\ to_complete = Cardinality(not_called) + (IF pc = "aw_submit" THEN 1 ELSE 0)
    /\ pc = "report" /\ not_called = {} => to_complete = 0

\* C18: writes holds no handle of a task whose completion callback has run;
\* it is empty once the drain has returned and all callbacks have run; and it
\* never holds more than buffer_size handles.
C18_LiveCollection ==
    /\ \A i \in DOMAIN writes : ~tasks[writes[i]].called
    /\ pc = "report" /\ not_called = {} => writes = <<>>
    /\ Len(writes) <= args.buffer_size

\* the destination made this call while the run was at entry f of list_folders()
dst_called(op, f) == Logged("dst", op, f) \in calls

\* C19: every write submitted, and every append made, is for a folder step in
\* which folder_exists was asked and the destination folder was either found
\* (and then selected) or created, and the folder exists; while the messages
\* of a source folder are decided, a destination folder that was absent has
\* had no header fetch and the index is empty (and it was created unless the
\* run is dry), and one that was present is selected, its headers have been
\* fetched and it was not created.
C19_FolderEnsuredBeforeWrite ==
    /\ \A f \in {tasks[h].fidx : h \in DOMAIN tasks}
              \cup {c.fidx : c \in {k \in calls : k.op = "append"}} :
          /\ dst_called("folder_exists", f)
          /\ dst_called("select_folder", f) \/ dst_called("create_folder", f)
          /\ dest[dst_name_of(source[f].name)].exists
          /\ ~args.dry_run
    /\ in_folder /\ ~dst_exists =>
          /\ dst_called("folder_exists", fidx)
          /\ ~dst_called("fetch_all", fidx) /\ ~dst_called("select_folder", fidx)
          /\ dst_msg_ids = {}
          /\ dst_called("create_folder", fidx) <=> ~args.dry_run
    /\ in_folder /\ dst_exists =>
          /\ dst_called("folder_exists", fidx)
          /\ dst_called("select_folder", fidx) /\ dst_called("fetch_all", fidx)
          /\ selected.dst = Some(dst_name)
          /\ ~dst_called("create_folder", fidx)

\* C19 witness: a message was written to a folder created in its folder step,
\* and another to a folder that was found, selected and fetched
C19_Witness ==
    /\ \E h \in DOMAIN tasks :
          /\ tasks[h].ok = "ok" /\ tasks[h].fidx = 1
          /\ dst_called("create_folder", 1) /\ ~dst_called("fetch_all", 1)
    /\ \E g \in DOMAIN tasks :
          /\ tasks[g].ok = "ok" /\ tasks[g].fidx = 2
          /\ dst_called("select_folder", 2) /\ dst_called("fetch_all", 2)
          /\ ~dst_called("create_folder", 2)

\* the flags fl without the transient marker, the others kept in order
RECURSIVE without_recent(_)
without_recent(fl) ==
    IF fl = <<>> THEN <<>>
    ELSE IF Head(fl) = RECENT THEN without_recent(Tail(fl))
    ELSE <<Head(fl)>> \o without_recent(Tail(fl))

\* C20: the message of every submitted write is addressed to 'Sent' if its
\* source folder is 'INBOX/Sent' and to the source folder's own name otherwise;
\* its identifier is the source header's identifier without surrounding
\* blanks, its body, size and date are the source message's, its flags are the
\* source flags without \Recent; and a write that succeeded has put exactly
\* that message into that destination folder.
C20_WriteTargetAndContent ==
    \A h \in DOMAIN tasks :
        LET f == source[tasks[h].fidx]
            m == f.msgs[tasks[h].mid]
            w == tasks[h].msg
            stored == [body |-> m.body, flags |-> without_recent(m.flags), date |-> m.date] IN
        /\ w.folder = IF f.name = INBOX_Sent THEN Sent ELSE f.name
        /\ w.id = strip(Val(m.body.hdr))
        /\ w.body = m.body /\ w.size = m.body.len /\ w.date = m.date
        /\ w.flags = without_recent(m.flags)
        /\ tasks[h].ok = "ok" =>
               \E i \in DOMAIN dest[w.folder].msgs :
                   dest[w.folder].msgs[i] \in {stored, seen(stored)}

\* C20 witness: message X of 'INBOX/Sent', whose header value is folded and
\* whose flags are \Recent and 'altro', was written to 'Sent' with identifier
\* 'X' and the one flag 'altro'
C20_Witness ==
    \E h \in DOMAIN tasks :
        /\ source[tasks[h].fidx].name = INBOX_Sent
        /\ source[tasks[h].fidx].msgs[tasks[h].mid] = mX
        /\ tasks[h].ok = "ok"
        /\ tasks[h].msg.folder = Sent
        /\ tasks[h].msg.id = <<"X">>
        /\ tasks[h].msg.flags = <<"altro">>
        /\ \E i \in DOMAIN dest[Sent].msgs :
              dest[Sent].msgs[i] = [body |-> mX.body, flags |-> <<"altro">>, date |-> mX.date]

====
